---- MODULE Spec2Model ----
(***************************************************************************)
(* Model of the knowledge ingestion and retrieval pipeline of              *)
(* azusa.supabase:                                                         *)
(*   - the embedding worker (processOne / loop),                           *)
(*   - the add-document request handler of the knowledge function, in its  *)
(*     queueing variant and in its inline-processing variant,              *)
(*   - the match_knowledge_documents search function and the               *)
(*     POST /knowledge/search handler that calls it.                       *)
(* Rows of knowledge_files and knowledge_documents are the shared state;   *)
(* every await of the code on the store is one step of a process.          *)
(***************************************************************************)
EXTENDS Integers, Sequences, FiniteSets, TLC

\* ---------------------------------------------------------------- bounds
NumWorkers == 2
MaxChunks == 2
MaxDocs == 4
SearchDocs == 3
Scale == 2
MaxLimit == 2
MaxStream == 2
MaxCalls == 2
RagDocs == 7
MaxRequests == 2

Workers == 1..NumWorkers

\* The ingestion claims are claims about one file: the model follows the one
\* file slot of one add-document request, in one of two knowledge bases.
FileIds == {1}
KbIds == {1, 2}
NumKbs == Cardinality(KbIds)

\* embeddings are directions 0..Scale+1; Scale is the similarity 1.0, and the
\* two directions furthest apart have a negative similarity
MaxAngle == Scale + 1
Angles == 0..MaxAngle

\* ------------------------------------------------------------- constants
\* value of a column that was never written (SQL NULL)
Null == -1

\* the length of chats.last_message
LastMessageLength == 50

\* .limit(5) of the search_knowledge_base tool
RagLimit == 5

\* the delay of the timeout of runPluginInSandbox, in ms
PluginTimeoutMs == 5000

\* the uploaded bytes of a file, by what parsing and splitting make of them:
\* "bad" cannot be parsed, "empty" parses to a text of length 0, "blank"
\* parses to a non-empty text that splits into no chunk, "text" + n splits
\* into n chunks.
\* text says whether the declared file_type starts with "text/".
Contents ==
  {[kind |-> "bad", n |-> 0, text |-> FALSE],
   [kind |-> "empty", n |-> 0, text |-> FALSE],
   [kind |-> "blank", n |-> 0, text |-> TRUE]}
  \cup {[kind |-> "text", n |-> i, text |-> TRUE] : i \in 1..MaxChunks}

VARIABLES
  files,        \* knowledge_files rows, by id; status "none" = no such row
  docs,         \* knowledge_documents rows
  rpc,          \* position of the add-document request that owns file slot f
  wpc,          \* position of each worker in loop / processOne
  wfile,        \* fileRecord.id held by each worker (0 = none)
  werr,         \* the error caught by the worker, to be written by the catch
  embeddedEmpty, \* history: embedDocuments was called for a content without chunks
  sIn,          \* arguments of the last search request
  sOut,         \* its response
  sOut2,        \* the response to the same request, sent a second time
  kbs,          \* knowledge_bases rows: the ids that exist
  blob,         \* storage: the folder (knowledge base id) that holds the
                \* uploaded bytes of file slot f, 0 = no object
  del,          \* the DELETE /knowledge/bases/:id request: its id and position
  chat,         \* the conversation: its character member, the knowledge bases
                \* the character subscribes to, the user's active plugins
  messages,     \* messages rows of the conversation, oldest first
  lastMessage,  \* chats.last_message
  gen,          \* the streamMessage generator and what its consumer received
  sb,           \* the plugin sandbox: worker, timer, promise, event in flight
  toolOut,      \* what the last tool call returned to the model
  chatRows,     \* chats rows of the user
  members,      \* chat_members rows of those chats
  req,          \* the createPrivateChat requests of the user for the character
  pIn,          \* the file handed to the parsers: declared MIME type, extension
  pOut          \* what the upload handler and the worker did with it

vars == <<files, docs, rpc, wpc, wfile, werr, embeddedEmpty, sIn, sOut, sOut2,
          kbs, blob, del, chat, messages, lastMessage, gen, sb, toolOut,
          chatRows, members, req, pIn, pOut>>
ingestVars == <<files, docs, rpc, wpc, wfile, werr, embeddedEmpty>>
searchVars == <<sIn, sOut, sOut2>>
deleteVars == <<kbs, blob, del>>
privateVars == <<chatRows, members, req>>
chatVars == <<chat, messages, lastMessage, gen, sb, toolOut, privateVars>>
parseVars == <<pIn, pOut>>
knowledgeVars == <<ingestVars, searchVars, deleteVars, parseVars>>

\* the plugins of the plugins table
Plugins == {"plugin", "other"}

\* plugin_subscriptions of the user: no row, a row with is_active = false,
\* a row with is_active = true
SubStates == {"none", "inactive", "active"}

\* a conversation without character member
NoChat == [hasCharacter |-> FALSE, kbIds |-> {},
           subs |-> [p \in Plugins |-> "none"]]

\* the createPrivateChat requests
Requests == 1..MaxRequests

\* a request that has not started; before = the requests that had returned
\* when it started, chatIds = userChats, member = existingMember.chat_id,
\* chat = the id of the chat returned or inserted (0 = none)
NoRequest == [pc |-> "idle", before |-> {}, chatIds |-> {}, member |-> 0,
              chat |-> 0, isNew |-> FALSE, created |-> FALSE]

\* no streamMessage call yet; userRow and aiRow are the positions in
\* messages of the rows the call has inserted (0 = none)
NoCall == [pc |-> "idle", call |-> 0, n |-> 0, full |-> <<>>, yielded |-> <<>>,
           tools |-> {}, kbIds |-> {}, modelCalls |-> 0, returned |-> FALSE,
           end |-> "", userRow |-> 0, aiRow |-> 0]

\* no Worker created yet; event = the message of the worker in flight,
\* errorEvent = an error event of the worker in flight, late = an event was
\* handled after the promise had settled
NoSandbox == [worker |-> "none", timer |-> "none", delay |-> 0,
              promise |-> "none", event |-> "none", errorEvent |-> FALSE,
              late |-> FALSE, plugin |-> ""]

\* no tool was called yet
NoToolOut == [kind |-> "none", tool |-> "", query |-> <<>>, text |-> <<>>,
              contents |-> <<>>, kbsOf |-> {}, error |-> ""]

\* the chat tables and the service before the first request
ChatInitial ==
  /\ messages = <<>>
  /\ lastMessage = <<>>
  /\ gen = NoCall
  /\ sb = NoSandbox
  /\ toolOut = NoToolOut
  /\ chatRows = {}
  /\ members = {}
  /\ req = [r \in Requests |-> NoRequest]

\* no file was handed to a parser yet
NoFile == [mime |-> "", ext |-> ""]

\* the outcome of a parse: the extractor applied ("" = none) and the error
\* thrown ("" = none)
NoParsed == [loader |-> "", error |-> ""]

\* neither the upload handler nor the worker has parsed the file
NoParse == [inline |-> NoParsed, worker |-> NoParsed]

\* no DELETE request yet
NoDelete == [kb |-> 0, pc |-> "none"]

\* no response yet
NoResponse == [outcome |-> "none", documents |-> <<>>, error |-> ""]

NoRow == [kb |-> 0, status |-> "none", error_message |-> "",
          chunk_count |-> Null,
          content |-> [kind |-> "empty", n |-> 0, text |-> FALSE]]

\* ------------------------------------------------------------- texts
\* a text is a sequence of characters; "_" is the one-character wildcard of
\* LIKE patterns, "|" stands for the separator "\n\n" of the joined result
Chars == {"a", "A", "b"}

Lower(c) == IF c = "A" THEN "a" ELSE c

\* the texts of the chunks of an ingested file: chunk i of a split
ChunkText(i) == IF i % 2 = 0 THEN <<"A">> ELSE <<"a", "b">>

\* ------------------------------------------------------ pure functions
\* parseFileContent and the loaders: a Document list or a thrown error
ParseFails(content) == content.kind = "bad"

\* totalContent.length of the joined parsed documents
TotalContentLength(content) ==
  IF content.kind \in {"bad", "empty"} THEN 0 ELSE 1

\* textSplitter.splitDocuments: the number of chunks
SplitDocsLength(content) ==
  IF content.kind = "text" THEN content.n ELSE 0

\* the vector the embedding provider returns for chunk i of a content
EmbedDocument(content, i) == (SplitDocsLength(content) + i) % (MaxAngle + 1)

DocsOfFile(f) == {d \in docs : d.file = f}

\* ids the store gives to the n rows of a new batch for file f (the store
\* draws random uuids; any injective choice models them)
FreshDocIds(f, n) ==
  LET used == Cardinality(DocsOfFile(f))
  IN [i \in 0..(n - 1) |-> (f - 1) * (MaxDocs + MaxChunks) + used + i + 1]

\* documentsToInsert of a job on file f of knowledge base kb
DocumentsToInsert(f, kb, content) ==
  LET n == SplitDocsLength(content)
      ids == FreshDocIds(f, n)
  IN {[id |-> ids[i], kb |-> kb, file |-> f, chunkIndex |-> i,
       totalChunks |-> n, emb |-> EmbedDocument(content, i),
       content |-> ChunkText(i)] : i \in 0..(n - 1)}


\* supabase.from("knowledge_files").update(changes).eq("id", f): writes the
\* row when it exists and the store accepts the write; the code never looks
\* at the result.
UpdateStatus(f, ok, st) ==
  IF ok /\ files[f].status # "none"
  THEN [files EXCEPT ![f].status = st]
  ELSE files

UpdateFailed(f, ok, msg) ==
  IF ok /\ files[f].status # "none"
  THEN [files EXCEPT ![f].status = "failed", ![f].error_message = msg]
  ELSE files

UpdateCompletedCount(f, ok, n) ==
  IF ok /\ files[f].status # "none"
  THEN [files EXCEPT ![f].status = "completed", ![f].chunk_count = n]
  ELSE files

\* the foreign keys without a check
ForeignKeysHold_unchecked(f) == TRUE

\* knowledge_documents.file_id and .knowledge_base_id reference existing rows:
\* a chunk row of file f can be inserted while the row of f exists (and with
\* it its knowledge base, which the row of f references)
ForeignKeysHold(f) == files[f].status # "none"

\* ------------------------------------------------------------------ Init
Init ==
  /\ files = [f \in FileIds |-> NoRow]
  /\ docs = {}
  /\ rpc = [f \in FileIds |-> "free"]
  /\ wpc = [w \in Workers |-> "idle"]
  /\ wfile = [w \in Workers |-> 0]
  /\ werr = [w \in Workers |-> ""]
  /\ embeddedEmpty = FALSE
  /\ sIn = [queryLength |-> 0, ids |-> {}, threshold |-> 0, limit |-> 0,
            queryEmbedding |-> 0]
  /\ sOut = NoResponse
  /\ sOut2 = NoResponse
  /\ kbs = KbIds
  /\ blob = [f \in FileIds |-> 0]
  /\ del = NoDelete
  /\ pIn = NoFile
  /\ pOut = NoParse
  /\ chat = NoChat
  /\ ChatInitial

\* ------------------------------------- add-document request (queueing)
NextSlot == CHOOSE f \in FileIds : rpc[f] = "free" /\ \A g \in FileIds : rpc[g] = "free" => f <= g

NewRow(kb, content, st) ==
  [kb |-> kb, status |-> st, error_message |-> "", chunk_count |-> Null,
   content |-> content]

\* storage.upload(`${kbId}/...`): the object of slot f lies in folder kb
Upload(f, kb, uploadOk) ==
  IF uploadOk THEN [blob EXCEPT ![f] = kb] ELSE blob

\* the lookup of the knowledge base (404 when it does not exist), the upload
\* to storage, then the insert of the knowledge_files row as "pending"
AddDocumentInsert ==
  /\ \E f \in FileIds : rpc[f] = "free"
  /\ LET f == NextSlot IN
     \E kb \in KbIds, content \in Contents,
        uploadOk \in BOOLEAN, insertOk \in BOOLEAN :
       IF kb \notin kbs
       THEN /\ files' = files
            /\ blob' = blob
            /\ rpc' = [rpc EXCEPT ![f] = "notFound404"]
       ELSE IF uploadOk /\ insertOk
       THEN /\ files' = [files EXCEPT ![f] = NewRow(kb, content, "pending")]
            /\ blob' = Upload(f, kb, uploadOk)
            /\ rpc' = [rpc EXCEPT ![f] = "requeue"]
       ELSE /\ files' = files
            /\ blob' = Upload(f, kb, uploadOk)
            /\ rpc' = [rpc EXCEPT ![f] = "error500"]
  /\ UNCHANGED <<docs, wpc, wfile, werr, embeddedEmpty, searchVars, kbs, del, chatVars, parseVars>>

\* the second write of the handler: update({status: "pending"}), then 202
AddDocumentRequeue ==
  \E f \in FileIds, ok \in BOOLEAN :
    /\ rpc[f] = "requeue"
    /\ files' = UpdateStatus(f, ok, "pending")
    /\ rpc' = [rpc EXCEPT ![f] = "accepted202"]
    /\ UNCHANGED <<docs, wpc, wfile, werr, embeddedEmpty, searchVars, deleteVars, chatVars, parseVars>>

\* --------------------------------------- add-document request (inline)
\* the lookup of the knowledge base, the upload to storage, then the insert
\* of the row as "processing"
InlineInsert ==
  /\ \E f \in FileIds : rpc[f] = "free"
  /\ LET f == NextSlot IN
     \E kb \in KbIds, content \in Contents,
        uploadOk \in BOOLEAN, insertOk \in BOOLEAN :
       IF kb \notin kbs
       THEN /\ files' = files
            /\ blob' = blob
            /\ rpc' = [rpc EXCEPT ![f] = "notFound404"]
       ELSE IF uploadOk /\ insertOk
       THEN /\ files' = [files EXCEPT ![f] = NewRow(kb, content, "processing")]
            /\ blob' = Upload(f, kb, uploadOk)
            /\ rpc' = [rpc EXCEPT ![f] = "task"]
       ELSE /\ files' = files
            /\ blob' = Upload(f, kb, uploadOk)
            /\ rpc' = [rpc EXCEPT ![f] = "error500"]
  /\ UNCHANGED <<docs, wpc, wfile, werr, embeddedEmpty, searchVars, kbs, del, chatVars, parseVars>>

\* processDocumentTask up to the insert of the chunks
InlineProcess ==
  \E f \in FileIds, embedOk \in BOOLEAN, insertOk \in BOOLEAN :
    /\ rpc[f] = "task"
    /\ Cardinality(docs) + SplitDocsLength(files[f].content) <= MaxDocs
    /\ LET c == files[f].content IN
       IF (~c.text /\ ParseFails(c)) \/ TotalContentLength(c) = 0
          \/ SplitDocsLength(c) = 0
       THEN /\ rpc' = [rpc EXCEPT ![f] = "taskFailed"]
            /\ UNCHANGED <<docs, embeddedEmpty>>
       ELSE /\ embeddedEmpty' = (embeddedEmpty \/ SplitDocsLength(c) = 0)
            /\ IF embedOk /\ insertOk /\ ForeignKeysHold(f)
               THEN /\ docs' = docs \cup DocumentsToInsert(f, files[f].kb, c)
                    /\ rpc' = [rpc EXCEPT ![f] = "taskInserted"]
               ELSE /\ docs' = docs
                    /\ rpc' = [rpc EXCEPT ![f] = "taskFailed"]
    /\ UNCHANGED <<files, wpc, wfile, werr, searchVars, deleteVars, chatVars, parseVars>>

\* update({status: "completed", chunk_count}), then 201
InlineComplete ==
  \E f \in FileIds, ok \in BOOLEAN :
    /\ rpc[f] = "taskInserted"
    /\ files' = UpdateCompletedCount(f, ok, SplitDocsLength(files[f].content))
    /\ rpc' = [rpc EXCEPT ![f] = "created201"]
    /\ UNCHANGED <<docs, wpc, wfile, werr, embeddedEmpty, searchVars, deleteVars, chatVars, parseVars>>

\* the catch of processDocumentTask, then 201
InlineFail ==
  \E f \in FileIds, ok \in BOOLEAN :
    /\ rpc[f] = "taskFailed"
    /\ files' = UpdateFailed(f, ok, "Error")
    /\ rpc' = [rpc EXCEPT ![f] = "created201"]
    /\ UNCHANGED <<docs, wpc, wfile, werr, embeddedEmpty, searchVars, deleteVars, chatVars, parseVars>>

\* ------------------------------------------------ worker: processOne
PendingFiles == {f \in FileIds : files[f].status = "pending"}

\* .eq("status", "pending").order("created_at").limit(1): the oldest
OldestPending ==
  CHOOSE f \in PendingFiles : \A g \in PendingFiles : f <= g

\* the select of processOne; a store error and an empty queue both return
SelectPending(w) ==
  /\ wpc[w] = "idle"
  /\ \E fetchOk \in BOOLEAN :
       IF fetchOk /\ PendingFiles # {}
       THEN /\ wfile' = [wfile EXCEPT ![w] = OldestPending]
            /\ wpc' = [wpc EXCEPT ![w] = "claim"]
       ELSE /\ wfile' = wfile
            /\ wpc' = [wpc EXCEPT ![w] = "idle"]
  /\ UNCHANGED <<files, docs, rpc, werr, embeddedEmpty, searchVars, deleteVars, chatVars, parseVars>>

\* update({status: "processing"}).eq("id", fileRecord.id)
ClaimFile(w) ==
  /\ wpc[w] = "claim"
  /\ \E ok \in BOOLEAN : files' = UpdateStatus(wfile[w], ok, "processing")
  /\ wpc' = [wpc EXCEPT ![w] = "download"]
  /\ UNCHANGED <<docs, rpc, wfile, werr, embeddedEmpty, searchVars, deleteVars, chatVars, parseVars>>

\* storage download (an error when the object is gone); on error the file is
\* marked failed and the job ends;
\* a text/* file is then read with Blob.text(), outside the try block
Download(w) ==
  /\ wpc[w] = "download"
  /\ \E downloadOk \in BOOLEAN, readOk \in BOOLEAN, ok \in BOOLEAN :
       IF ~downloadOk \/ blob[wfile[w]] = 0
       THEN /\ files' = UpdateFailed(wfile[w], ok, "download")
            /\ wpc' = [wpc EXCEPT ![w] = "idle"]
            /\ wfile' = [wfile EXCEPT ![w] = 0]
       ELSE /\ files' = files
            /\ wfile' = wfile
            /\ IF files[wfile[w]].content.text /\ ~readOk
               THEN wpc' = [wpc EXCEPT ![w] = "raised"]
               ELSE wpc' = [wpc EXCEPT ![w] = "parse"]
  /\ UNCHANGED <<docs, rpc, werr, embeddedEmpty, searchVars, deleteVars, chatVars, parseVars>>


\* ContentError without the two length checks
ContentError_unchecked(c) ==
  IF ~c.text /\ ParseFails(c) THEN "parse" ELSE ""

\* the guards before the embedding call: parse, total length, chunk count
ContentError(c) ==
  IF ~c.text /\ ParseFails(c) THEN "parse"
  ELSE IF TotalContentLength(c) = 0 THEN "No content to process after parsing"
  ELSE IF SplitDocsLength(c) = 0 THEN "No content to process after splitting"
  ELSE ""

\* parse (or wrap the text), join, check the length, split, check the chunks
ParseAndSplit(w) ==
  /\ wpc[w] = "parse"
  /\ LET e == ContentError(files[wfile[w]].content) IN
       IF e # ""
       THEN /\ werr' = [werr EXCEPT ![w] = e]
            /\ wpc' = [wpc EXCEPT ![w] = "catch"]
       ELSE /\ werr' = werr
            /\ wpc' = [wpc EXCEPT ![w] = "embed"]
  /\ UNCHANGED <<files, docs, rpc, wfile, embeddedEmpty, searchVars, deleteVars, chatVars, parseVars>>

\* embeddings.embedDocuments(texts)
EmbedDocuments(w) ==
  /\ wpc[w] = "embed"
  /\ embeddedEmpty' = (embeddedEmpty \/ SplitDocsLength(files[wfile[w]].content) = 0)
  /\ \E embedOk \in BOOLEAN :
       IF embedOk
       THEN /\ werr' = werr
            /\ wpc' = [wpc EXCEPT ![w] = "insert"]
       ELSE /\ werr' = [werr EXCEPT ![w] = "embed"]
            /\ wpc' = [wpc EXCEPT ![w] = "catch"]
  /\ UNCHANGED <<files, docs, rpc, wfile, searchVars, deleteVars, chatVars, parseVars>>

\* from("knowledge_documents").insert(documentsToInsert): one statement, all
\* rows or none; the rows reference the file row and its knowledge base
InsertDocuments(w) ==
  /\ wpc[w] = "insert"
  /\ Cardinality(docs) + SplitDocsLength(files[wfile[w]].content) <= MaxDocs
  /\ LET f == wfile[w] IN
     \E insertOk \in BOOLEAN :
       IF insertOk /\ ForeignKeysHold(f)
       THEN /\ docs' = docs \cup DocumentsToInsert(f, files[f].kb, files[f].content)
            /\ werr' = werr
            /\ wpc' = [wpc EXCEPT ![w] = "complete"]
       ELSE /\ docs' = docs
            /\ werr' = [werr EXCEPT ![w] = "insert"]
            /\ wpc' = [wpc EXCEPT ![w] = "catch"]
  /\ UNCHANGED <<files, rpc, wfile, embeddedEmpty, searchVars, deleteVars, chatVars, parseVars>>

\* update({status: "completed"}).eq("id", fileRecord.id)
MarkCompleted(w) ==
  /\ wpc[w] = "complete"
  /\ \E ok \in BOOLEAN : files' = UpdateStatus(wfile[w], ok, "completed")
  /\ wpc' = [wpc EXCEPT ![w] = "idle"]
  /\ wfile' = [wfile EXCEPT ![w] = 0]
  /\ UNCHANGED <<docs, rpc, werr, embeddedEmpty, searchVars, deleteVars, chatVars, parseVars>>

\* catch (e): update({status: "failed", error_message: String(e)})
MarkFailed(w) ==
  /\ wpc[w] = "catch"
  /\ \E ok \in BOOLEAN : files' = UpdateFailed(wfile[w], ok, werr[w])
  /\ wpc' = [wpc EXCEPT ![w] = "idle"]
  /\ wfile' = [wfile EXCEPT ![w] = 0]
  /\ werr' = [werr EXCEPT ![w] = ""]
  /\ UNCHANGED <<docs, rpc, embeddedEmpty, searchVars, deleteVars, chatVars, parseVars>>

\* ------------------------------------- DELETE /knowledge/bases/:id
\* a knowledge_files row removed by the cascade: the row is gone (status
\* "none"); kb and content stay as the copy a worker that selected the row
\* holds in fileRecord, and as the bytes in storage
DeletedRow(r) == [NoRow EXCEPT !.kb = r.kb, !.content = r.content]

\* on delete cascade of knowledge_documents.knowledge_base_id
CascadeDocs(kb) == {d \in docs : d.kb # kb}

\* on delete cascade of knowledge_files.knowledge_base_id
CascadeFiles(kb) ==
  [f \in FileIds |->
     IF files[f].status # "none" /\ files[f].kb = kb
     THEN DeletedRow(files[f]) ELSE files[f]]

\* the lookup of the knowledge base, then delete().eq("id", kbId): one
\* statement that removes the row and, by the cascades, its files and chunks;
\* an error of the statement is thrown (500)
DeleteKnowledgeBase ==
  /\ del.pc = "none"
  /\ \E kb \in kbs, deleteOk \in BOOLEAN :
       IF deleteOk
       THEN /\ kbs' = kbs \ {kb}
            /\ files' = CascadeFiles(kb)
            /\ docs' = CascadeDocs(kb)
            /\ del' = [kb |-> kb, pc |-> "cleanup"]
       ELSE /\ UNCHANGED <<kbs, files, docs>>
            /\ del' = [kb |-> kb, pc |-> "error500"]
  /\ UNCHANGED <<rpc, wpc, wfile, werr, embeddedEmpty, searchVars, blob, chatVars, parseVars>>

\* storage.list(kbId) and storage.remove(paths), inside a try whose errors
\* are logged only; then the 200 response
CleanupStorage ==
  /\ del.pc = "cleanup"
  /\ \E listOk \in BOOLEAN, removeOk \in BOOLEAN :
       blob' = IF listOk /\ removeOk
               THEN [f \in FileIds |-> IF blob[f] = del.kb THEN 0 ELSE blob[f]]
               ELSE blob
  /\ del' = [del EXCEPT !.pc = "deleted200"]
  /\ UNCHANGED <<ingestVars, searchVars, kbs, chatVars, parseVars>>

\* ------------------------------------------------------------- search
\* kd.embedding <=> query_embedding: the cosine distance, in units of 1/Scale
Distance(emb, q) == IF emb >= q THEN emb - q ELSE q - emb

\* 1 - (kd.embedding <=> query_embedding), in units of 1/Scale
Similarity(emb, q) == Scale - Distance(emb, q)

\* the scope without the knowledge base filter
InScope_any(d, ids) == TRUE

\* kd.knowledge_base_id = ANY(knowledge_base_ids)
InScope(d, ids) == d.kb \in ids

\* the threshold test with >= for >
PassesThreshold_ge(sim, thr) == sim >= thr

\* 1 - (kd.embedding <=> query_embedding) > match_threshold
PassesThreshold(sim, thr) == sim > thr

Min(a, b) == IF a <= b THEN a ELSE b

\* match_knowledge_documents: the result sets the SELECT can return. ORDER BY
\* distance leaves the order of rows at equal distance to the executor, and so
\* does LIMIT among rows tied at the cut: each such choice is one result.
MatchKnowledgeDocuments(table, q, ids, thr, count) ==
  LET matching == {d \in table :
                     InScope(d, ids) /\ PassesThreshold(Similarity(d.emb, q), thr)}
      k == Min(count, Cardinality(matching))
  IN {r \in [1..k -> matching] :
        /\ \A i \in 1..k, j \in 1..k : i # j => r[i] # r[j]
        /\ \A i \in 1..k, j \in 1..k :
             i < j => Distance(r[i].emb, q) <= Distance(r[j].emb, q)
        /\ \A d \in matching :
             (\A i \in 1..k : r[i] # d)
               => \A i \in 1..k : Distance(r[i].emb, q) <= Distance(d.emb, q)}

\* searchKnowledgeSchema without .min(1) on knowledgeBaseIds
ValidSearchBody_anyIds(queryLength, ids) == queryLength >= 1

\* searchKnowledgeSchema: query.min(1), knowledgeBaseIds.min(1)
ValidSearchBody(queryLength, ids) == queryLength >= 1 /\ ids # {}

\* documents.map(doc => ({id, content, similarity, metadata}))
ResponseDocuments(r, q) ==
  [i \in 1..Len(r) |-> [id |-> r[i].id, similarity |-> Similarity(r[i].emb, q)]]

Thresholds == 0..Scale
Limits == (-1)..MaxLimit

\* the response of the catch of the handler: 500 "Vector search failed"; error
\* is the caught error the handler logs
SearchFailed(e) == [outcome |-> "error", documents |-> <<>>, error |-> e]

\* the answers of the handler to a valid body whose query embeds to q
SearchResponses(q, ids, thr, limit) ==
  {SearchFailed("embed"), SearchFailed("rpc")}
  \cup (IF limit >= 0
        THEN {[outcome |-> "success", documents |-> ResponseDocuments(r, q),
               error |-> ""] : r \in MatchKnowledgeDocuments(docs, q, ids, thr, limit)}
        ELSE {})

\* POST /knowledge/search: validation, embedQuery, the rpc, the response
\* (the handler answers a request once); the request is drawn from the
\* given sets
SearchOver(IdSets, Thrs, Lims, Qs) ==
  /\ sOut.outcome = "none"
  /\ \E queryLength \in 0..1, ids \in IdSets, thr \in Thrs, limit \in Lims :
       IF ~ValidSearchBody(queryLength, ids)
       THEN /\ sIn' = [queryLength |-> queryLength, ids |-> ids, threshold |-> thr,
                       limit |-> limit, queryEmbedding |-> 0]
            /\ sOut' = [outcome |-> "validation_error", documents |-> <<>>,
                        error |-> ""]
       ELSE \E q \in Qs :
              /\ sIn' = [queryLength |-> queryLength, ids |-> ids, threshold |-> thr,
                         limit |-> limit, queryEmbedding |-> q]
              /\ sOut' \in SearchResponses(q, ids, thr, limit)
  /\ sOut2' = sOut2

Search ==
  /\ SearchOver(SUBSET KbIds, Thresholds, Limits, Angles)
  /\ UNCHANGED <<ingestVars, deleteVars, chatVars, parseVars>>

\* the same request sent again while the store is unchanged; the embedding
\* provider returns the same vector for the same query text
SearchAgain ==
  /\ sOut.outcome # "none"
  /\ sOut2.outcome = "none"
  /\ IF ~ValidSearchBody(sIn.queryLength, sIn.ids)
     THEN sOut2' = [outcome |-> "validation_error", documents |-> <<>>,
                    error |-> ""]
     ELSE sOut2' \in SearchResponses(sIn.queryEmbedding, sIn.ids, sIn.threshold,
                                     sIn.limit)
  /\ UNCHANGED <<ingestVars, deleteVars, sIn, sOut, chatVars, parseVars>>

\* a search request scoped to the knowledge base that was deleted, sent after
\* the deletion was answered
SearchDeleted ==
  /\ del.pc = "deleted200"
  /\ SearchOver({{del.kb}}, {0}, {MaxLimit}, {0})
  /\ UNCHANGED <<ingestVars, deleteVars, chatVars, parseVars>>

\* chunk rows for the search: row i is absent (code 0) or has one of the
\* knowledge bases and one of the embeddings; ids are uuids without meaning,
\* so the tables are taken up to a renaming of the ids (codes in order)
SearchRow(i, code) ==
  [id |-> i, kb |-> ((code - 1) % NumKbs) + 1, file |-> 0, chunkIndex |-> 0,
   totalChunks |-> 1, emb |-> (code - 1) \div NumKbs, content |-> ChunkText(0)]

InitSearch ==
  /\ files = [f \in FileIds |-> NoRow]
  /\ \E codes \in [1..SearchDocs -> 0..(NumKbs * (MaxAngle + 1))] :
       /\ \A i \in 1..SearchDocs, j \in 1..SearchDocs : i < j => codes[i] <= codes[j]
       /\ docs = {SearchRow(i, codes[i]) : i \in {j \in 1..SearchDocs : codes[j] # 0}}
  /\ rpc = [f \in FileIds |-> "free"]
  /\ wpc = [w \in Workers |-> "idle"]
  /\ wfile = [w \in Workers |-> 0]
  /\ werr = [w \in Workers |-> ""]
  /\ embeddedEmpty = FALSE
  /\ sIn = [queryLength |-> 0, ids |-> {}, threshold |-> 0, limit |-> 0,
            queryEmbedding |-> 0]
  /\ sOut = NoResponse
  /\ sOut2 = NoResponse
  /\ kbs = KbIds
  /\ blob = [f \in FileIds |-> 0]
  /\ del = NoDelete
  /\ pIn = NoFile
  /\ pOut = NoParse
  /\ chat = NoChat
  /\ ChatInitial

NextSearch == Search \/ SearchAgain

SpecSearch == InitSearch /\ [][NextSearch]_vars

\* ================================================== chat: streamMessage
\* what the user sends
UserMessage == <<"b">>

\* the non-empty string contents the model stream delivers
Increments == {<<"a">>, <<"A", "b">>}

\* the row saveUserMessage inserts
UserRow(text) ==
  [sender_type |-> "user", sender_profile_id |-> "profile",
   sender_character_id |-> "null", text |-> text]

\* a character row that also names the user's profile
CharacterRow_both(text) ==
  [sender_type |-> "character", sender_profile_id |-> "profile",
   sender_character_id |-> "ai", text |-> text]

\* the row saveAIMessage inserts: content [{type: "text", text: message}]
CharacterRow(text) ==
  [sender_type |-> "character", sender_profile_id |-> "null",
   sender_character_id |-> "ai", text |-> text]

\* the chunks the generator yields: a text increment, the sentinel, the marker
TextChunk(inc) == [kind |-> "text", text |-> inc, note |-> ""]
Sentinel == [kind |-> "sentinel", text |-> <<>>, note |-> "No AI in this chat."]
ErrorMarker == [kind |-> "marker", text |-> <<>>, note |-> "[Error: message]"]

\* fullResponse.substring(0, 50)
Summary(text) == SubSeq(text, 1, Min(Len(text), LastMessageLength))

\* saveUserMessage that logs the error of the insert and goes on
AfterSaveUser_swallow(saveOk) == "resolve"

\* saveUserMessage: if (error) throw error
AfterSaveUser(saveOk) == IF saveOk THEN "resolve" ELSE "thrown"

\* the call of streamMessage and the first next() of its consumer:
\* saveUserMessage inserts the user's message or throws
StreamMessage ==
  /\ gen.pc \in {"idle", "done", "thrown"}
  /\ gen.call < MaxCalls
  /\ sb.timer # "armed" /\ sb.event = "none" /\ ~sb.errorEvent
  /\ \E saveOk \in BOOLEAN :
       IF saveOk
       THEN /\ messages' = Append(messages, UserRow(UserMessage))
            /\ gen' = [NoCall EXCEPT !.pc = AfterSaveUser(saveOk),
                                     !.call = gen.call + 1,
                                     !.userRow = Len(messages) + 1]
       ELSE /\ messages' = messages
            /\ gen' = [NoCall EXCEPT !.pc = AfterSaveUser(saveOk),
                                     !.end = "saveUser", !.call = gen.call + 1]
  /\ toolOut' = NoToolOut
  /\ sb' = NoSandbox
  /\ UNCHANGED <<knowledgeVars, privateVars, chat, lastMessage>>

\* the test of the character member without the test
HasCharacter_always(c, lookupOk) == TRUE

\* !chatMember || !chatMember.character, negated
HasCharacter(c, lookupOk) == c.hasCharacter /\ lookupOk

\* the lookup of the character member with .single(): without a row (or
\* without an answer of the store) the sentinel is yielded
ResolveCharacter ==
  /\ gen.pc = "resolve"
  /\ \E lookupOk \in BOOLEAN :
       IF HasCharacter(chat, lookupOk)
       THEN gen' = [gen EXCEPT !.pc = "setup"]
       ELSE gen' = [gen EXCEPT !.pc = "yieldSentinel",
                               !.yielded = Append(gen.yielded, Sentinel)]
  /\ UNCHANGED <<knowledgeVars, privateVars, chat, messages, lastMessage, sb, toolOut>>

\* the tools of a call: the RAG tool when there is a subscription, one tool
\* per plugin
ToolSet(kbIds, plugins) ==
  (IF kbIds # {} THEN {"search_knowledge_base"} ELSE {}) \cup plugins

\* the query without .eq("is_active", true)
ActivePlugins_any(subs) == {p \in Plugins : subs[p] # "none"}

\* .eq("user_id", userId).eq("is_active", true)
ActivePlugins(subs) == {p \in Plugins : subs[p] = "active"}

\* getSubscribedPlugins: the plugins of the rows, or no plugin when the
\* query returns no data (its error is not read)
GetSubscribedPlugins(subs, ok) == IF ok THEN ActivePlugins(subs) ELSE {}

\* getSubscribedKnowledgeBaseIds (throws on a store error),
\* getSubscribedPlugins (no data = no plugin), the history, the tools, the agent
BuildTools ==
  /\ gen.pc = "setup"
  /\ \E kbOk \in BOOLEAN, pluginsOk \in BOOLEAN :
       IF ~kbOk
       THEN gen' = [gen EXCEPT !.pc = "thrown", !.end = "setup"]
       ELSE gen' = [gen EXCEPT !.pc = "agent", !.kbIds = chat.kbIds,
                               !.tools = ToolSet(chat.kbIds,
                                                 GetSubscribedPlugins(chat.subs,
                                                                      pluginsOk))]
  /\ UNCHANGED <<knowledgeVars, privateVars, chat, messages, lastMessage, sb, toolOut>>

\* the catch of the stream: the marker is yielded
CatchStreamError(g) ==
  [g EXCEPT !.pc = "yieldMarker", !.yielded = Append(g.yielded, ErrorMarker)]

\* await agent.stream(...): the model call is started, or throws
AgentStream ==
  /\ gen.pc = "agent"
  /\ \E ok \in BOOLEAN :
       LET g == [gen EXCEPT !.modelCalls = gen.modelCalls + 1] IN
       IF ok THEN gen' = [g EXCEPT !.pc = "stream"]
       ELSE gen' = CatchStreamError(g)
  /\ UNCHANGED <<knowledgeVars, privateVars, chat, messages, lastMessage, sb, toolOut>>

\* a chunk whose content is a non-empty string: accumulated, then yielded
StreamText ==
  /\ gen.pc = "stream"
  /\ gen.n < MaxStream
  /\ \E inc \in Increments :
       gen' = [gen EXCEPT !.pc = "yield", !.n = gen.n + 1,
                          !.full = gen.full \o inc,
                          !.yielded = Append(gen.yielded, TextChunk(inc))]
  /\ UNCHANGED <<knowledgeVars, privateVars, chat, messages, lastMessage, sb, toolOut>>

\* a chunk whose content is empty or not a string: passed over
StreamSkip ==
  /\ gen.pc = "stream"
  /\ gen.n < MaxStream
  /\ gen' = [gen EXCEPT !.n = gen.n + 1]
  /\ UNCHANGED <<knowledgeVars, privateVars, chat, messages, lastMessage, sb, toolOut>>

\* the stream throws
StreamError ==
  /\ gen.pc = "stream"
  /\ gen' = CatchStreamError(gen)
  /\ UNCHANGED <<knowledgeVars, privateVars, chat, messages, lastMessage, sb, toolOut>>

\* the stream ends
StreamEnd ==
  /\ gen.pc = "stream"
  /\ gen' = [gen EXCEPT !.pc = "finally"]
  /\ UNCHANGED <<knowledgeVars, privateVars, chat, messages, lastMessage, sb, toolOut>>

\* the consumer asks for the next chunk: the generator resumes after the yield
ConsumerNext ==
  /\ gen.pc \in {"yield", "yieldMarker", "yieldSentinel"}
  /\ gen' = [gen EXCEPT !.pc = CASE gen.pc = "yield" -> "stream"
                                 [] gen.pc = "yieldMarker" -> "finally"
                                 [] OTHER -> "done"]
  /\ UNCHANGED <<knowledgeVars, privateVars, chat, messages, lastMessage, sb, toolOut>>

\* return() that leaves the generator without running the finally block
AfterReturn_skip(pc) == "done"

\* where return() takes a generator suspended at a yield: a yield inside the
\* try runs the finally block, the yield of the sentinel is outside of it
AfterReturn(pc) == IF pc = "yieldSentinel" THEN "done" ELSE "finally"

\* the consumer stops: return() resumes the generator at the yield with a
\* return completion
ConsumerReturn ==
  /\ gen.pc \in {"yield", "yieldMarker", "yieldSentinel"}
  /\ gen' = [gen EXCEPT !.returned = TRUE, !.pc = AfterReturn(gen.pc)]
  /\ UNCHANGED <<knowledgeVars, privateVars, chat, messages, lastMessage, sb, toolOut>>

\* the finally block without its test of fullResponse
SavesResponse_always(full) == TRUE

\* if (fullResponse)
SavesResponse(full) == full # <<>>

\* finally: saveAIMessage (throws on a store error), then the update of
\* chats.last_message (its error is logged)
Finalize ==
  /\ gen.pc = "finally"
  /\ IF ~SavesResponse(gen.full)
     THEN /\ gen' = [gen EXCEPT !.pc = "done"]
          /\ UNCHANGED <<messages, lastMessage>>
     ELSE \E saveOk \in BOOLEAN, updateOk \in BOOLEAN :
            IF saveOk
            THEN /\ messages' = Append(messages, CharacterRow(gen.full))
                 /\ lastMessage' = IF updateOk THEN Summary(gen.full)
                                   ELSE lastMessage
                 /\ gen' = [gen EXCEPT !.pc = "done",
                                       !.aiRow = Len(messages) + 1]
            ELSE /\ UNCHANGED <<messages, lastMessage>>
                 /\ gen' = [gen EXCEPT !.pc = "thrown", !.end = "saveAI"]
  /\ UNCHANGED <<knowledgeVars, privateVars, chat, sb, toolOut>>

\* ====================================================== chat: the tools
\* content ILIKE %query%: a case-insensitive match of the pattern somewhere
\* in the text; the query is not escaped, so its "_" matches any character
ILike(text, q) ==
  \E i \in 1..(Len(text) - Len(q) + 1) :
    \A j \in 1..Len(q) : q[j] = "_" \/ Lower(q[j]) = Lower(text[i + j - 1])

RECURSIVE JoinTexts(_)
\* data.map(d => d.content).join("\n\n")
JoinTexts(seq) ==
  IF Len(seq) = 0 THEN <<>>
  ELSE IF Len(seq) = 1 THEN seq[1]
  ELSE seq[1] \o <<"|">> \o JoinTexts(Tail(seq))

\* what the model asks the RAG tool
Queries == {<<>>, <<"A">>, <<"b">>, <<"b", "b">>, <<"_">>}

\* the RAG tool without the filter on the subscribed knowledge bases
RagScope_any(d, kbIds) == TRUE

\* .in("knowledge_base_id", kbIds)
RagScope(d, kbIds) == d.kb \in kbIds

\* rows with the same knowledge base and the same content are
\* interchangeable in an answer: the one with the least id stands for them
Representatives(rows) ==
  {d \in rows : \A e \in rows :
     (e.kb = d.kb /\ e.content = d.content) => d.id <= e.id}

RECURSIVE Arrangements(_, _)
\* the sequences of k different rows of a set, up to interchangeable rows
Arrangements(rows, k) ==
  IF k = 0 THEN {<<>>}
  ELSE UNION {{<<x>> \o r : r \in Arrangements(rows \ {x}, k - 1)} :
                x \in Representatives(rows)}

\* the answers of the search_knowledge_base tool: LIMIT without ORDER BY
\* returns any RagLimit of the matching rows, in any order
RagToolResults(kbIds, query, ok) ==
  IF kbIds = {}
  THEN {[NoToolOut EXCEPT !.kind = "text", !.tool = "search_knowledge_base",
                          !.query = query, !.error = "No linked knowledge bases."]}
  ELSE IF ~ok
  THEN {[NoToolOut EXCEPT !.kind = "text", !.tool = "search_knowledge_base",
                          !.query = query,
                          !.error = "Error searching knowledge base: message"]}
  ELSE LET matching == {d \in docs : RagScope(d, kbIds) /\ ILike(d.content, query)}
           k == Min(RagLimit, Cardinality(matching))
       IN IF k = 0
          THEN {[NoToolOut EXCEPT !.kind = "text",
                                  !.tool = "search_knowledge_base",
                                  !.query = query,
                                  !.error = "No relevant information found."]}
          ELSE {[kind |-> "join", tool |-> "search_knowledge_base",
                 query |-> query,
                 text |-> JoinTexts([i \in 1..k |-> r[i].content]),
                 contents |-> [i \in 1..k |-> r[i].content],
                 kbsOf |-> {r[i].kb : i \in 1..k}, error |-> ""] :
                   r \in Arrangements(matching, k)}

\* the model calls search_knowledge_base
CallRagTool ==
  /\ gen.pc = "stream"
  /\ gen.n < MaxStream
  /\ "search_knowledge_base" \in gen.tools
  /\ \E query \in Queries, ok \in BOOLEAN :
       toolOut' \in RagToolResults(gen.kbIds, query, ok)
  /\ gen' = [gen EXCEPT !.n = gen.n + 1]
  /\ UNCHANGED <<knowledgeVars, privateVars, chat, messages, lastMessage, sb>>

\* the model calls a plugin tool: runPluginInSandbox creates the Worker, arms
\* the timeout and posts the code
CallPluginTool ==
  /\ gen.pc = "stream"
  /\ gen.n < MaxStream
  /\ sb.timer # "armed" /\ sb.event = "none" /\ ~sb.errorEvent
  /\ \E p \in gen.tools \ {"search_knowledge_base"} :
       /\ sb' = [worker |-> "running", timer |-> "armed",
                 delay |-> PluginTimeoutMs, promise |-> "pending",
                 event |-> "none", errorEvent |-> FALSE, late |-> FALSE,
                 plugin |-> p]
       /\ toolOut' = [NoToolOut EXCEPT !.tool = p]
  /\ gen' = [gen EXCEPT !.pc = "tool", !.n = gen.n + 1]
  /\ UNCHANGED <<knowledgeVars, privateVars, chat, messages, lastMessage>>

\* the worker posts {ok: true, result} or, from its catch, {ok: false, error}
WorkerPosts ==
  /\ sb.worker = "running"
  /\ sb.event = "none"
  /\ \E e \in {"result", "pluginError"} : sb' = [sb EXCEPT !.event = e]
  /\ UNCHANGED <<knowledgeVars, privateVars, chat, messages, lastMessage, gen, toolOut>>

\* an uncaught error in the worker: an error event for worker.onerror
WorkerCrashes ==
  /\ sb.worker = "running"
  /\ ~sb.errorEvent
  /\ sb' = [sb EXCEPT !.errorEvent = TRUE]
  /\ UNCHANGED <<knowledgeVars, privateVars, chat, messages, lastMessage, gen, toolOut>>

\* resolve and reject settle a promise once
Settle(promise, outcome) == IF promise = "pending" THEN outcome ELSE promise

\* a handler that leaves the timer armed
ClearTimeout_not(timer) == timer

\* clearTimeout of a timer that has not fired
ClearTimeout(timer) == IF timer = "armed" THEN "cleared" ELSE timer

\* the promise of runPluginInSandbox is settled
Settled == sb.promise \in {"resolved", "rejectedTimeout", "rejectedPlugin",
                           "rejectedWorker"}

\* worker.onmessage: clearTimeout, terminate, resolve or reject; an error
\* event in flight is dropped with the worker or still delivered
OnMessage ==
  /\ sb.event \in {"result", "pluginError"}
  /\ \E dropped \in BOOLEAN :
       sb' = [sb EXCEPT !.timer = ClearTimeout(sb.timer),
                        !.worker = "terminated",
                        !.promise = Settle(sb.promise,
                                           IF sb.event = "result" THEN "resolved"
                                           ELSE "rejectedPlugin"),
                        !.event = "none",
                        !.errorEvent = sb.errorEvent /\ ~dropped,
                        !.late = sb.late \/ Settled]
  /\ UNCHANGED <<knowledgeVars, privateVars, chat, messages, lastMessage, gen, toolOut>>

\* worker.onerror: clearTimeout, terminate, reject(err)
OnError ==
  /\ sb.errorEvent
  /\ \E dropped \in BOOLEAN :
       sb' = [sb EXCEPT !.timer = ClearTimeout(sb.timer),
                        !.worker = "terminated",
                        !.promise = Settle(sb.promise, "rejectedWorker"),
                        !.errorEvent = FALSE,
                        !.event = IF dropped THEN "none" ELSE sb.event,
                        !.late = sb.late \/ Settled]
  /\ UNCHANGED <<knowledgeVars, privateVars, chat, messages, lastMessage, gen, toolOut>>

\* the timeout callback that lets the worker run
Terminate_not(worker) == worker

\* worker.terminate()
Terminate(worker) == "terminated"

\* the setTimeout callback after PluginTimeoutMs: terminate, reject; an event
\* the worker had already posted is dropped with the worker or still delivered
TimeoutFires ==
  /\ sb.timer = "armed"
  /\ \E dropped \in BOOLEAN :
       sb' = [sb EXCEPT !.timer = "fired",
                        !.worker = Terminate(sb.worker),
                        !.promise = Settle(sb.promise, "rejectedTimeout"),
                        !.event = IF dropped THEN "none" ELSE sb.event,
                        !.errorEvent = sb.errorEvent /\ ~dropped]
  /\ UNCHANGED <<knowledgeVars, privateVars, chat, messages, lastMessage, gen, toolOut>>

\* e.message of the rejection of runPluginInSandbox
RejectionMessage(promise) ==
  CASE promise = "rejectedTimeout" -> "Plugin execution timed out"
    [] promise = "rejectedPlugin" -> "plugin error"
    [] promise = "rejectedWorker" -> "worker error"
    [] OTHER -> ""

\* the plugin tool without its catch
PluginToolResult_nocatch(p, promise) ==
  IF promise = "resolved"
  THEN [NoToolOut EXCEPT !.kind = "value", !.tool = p]
  ELSE [NoToolOut EXCEPT !.kind = "throw", !.tool = p,
                         !.error = RejectionMessage(promise)]

\* the plugin tool: the result of the plugin, or from the catch the text
\* `Error executing plugin ${plugin.name}: ${e.message}`
PluginToolResult(p, promise) ==
  IF promise = "resolved"
  THEN [NoToolOut EXCEPT !.kind = "value", !.tool = p]
  ELSE [NoToolOut EXCEPT !.kind = "text", !.tool = p,
                         !.error = RejectionMessage(promise)]

\* runPluginInSandbox has settled: the tool returns to the agent, whose stream
\* goes on (a tool that throws ends the stream with its error)
PluginToolReturn ==
  /\ gen.pc = "tool"
  /\ sb.promise \in {"resolved", "rejectedTimeout", "rejectedPlugin",
                     "rejectedWorker"}
  /\ toolOut' = PluginToolResult(sb.plugin, sb.promise)
  /\ gen' = IF toolOut'.kind = "throw" THEN CatchStreamError(gen)
            ELSE [gen EXCEPT !.pc = "stream"]
  /\ UNCHANGED <<knowledgeVars, privateVars, chat, messages, lastMessage, sb>>

\* ------------------------------------------------ chat: specification
\* the conversations: without character, or with a character that subscribes
\* to some knowledge bases, for a user with some active plugins
ChatConfigs ==
  {NoChat} \cup {[hasCharacter |-> TRUE, kbIds |-> k, subs |-> s] :
                   k \in SUBSET KbIds, s \in [Plugins -> SubStates]}

\* the conversations of a user with at most one subscription, an active one
OnePlugin ==
  {c \in ChatConfigs :
     c.subs["other"] = "none" /\ c.subs["plugin"] # "inactive"}

\* chunk rows for the RAG tool: the first rows belong to knowledge base 1,
\* the others to knowledge base 2, and the chunk texts alternate
RagRow(i, first) ==
  [id |-> i, kb |-> IF i <= first THEN 1 ELSE 2, file |-> 0,
   chunkIndex |-> i % 2, totalChunks |-> 2, emb |-> 0,
   content |-> ChunkText(i % 2)]

\* the knowledge tables and requests as they are before the chat starts,
\* with the given chunk rows
KnowledgeIdle(rows) ==
  /\ files = [f \in FileIds |-> NoRow]
  /\ docs = rows
  /\ rpc = [f \in FileIds |-> "free"]
  /\ wpc = [w \in Workers |-> "idle"]
  /\ wfile = [w \in Workers |-> 0]
  /\ werr = [w \in Workers |-> ""]
  /\ embeddedEmpty = FALSE
  /\ sIn = [queryLength |-> 0, ids |-> {}, threshold |-> 0, limit |-> 0,
            queryEmbedding |-> 0]
  /\ sOut = NoResponse
  /\ sOut2 = NoResponse
  /\ kbs = KbIds
  /\ blob = [f \in FileIds |-> 0]
  /\ del = NoDelete
  /\ pIn = NoFile
  /\ pOut = NoParse

\* any conversation, over knowledge bases without chunks
InitChat ==
  /\ KnowledgeIdle({})
  /\ chat \in OnePlugin
  /\ ChatInitial

\* a conversation whose character subscribes to knowledge bases with chunks
InitRag ==
  /\ \E first \in 0..RagDocs : KnowledgeIdle({RagRow(i, first) : i \in 1..RagDocs})
  /\ chat \in {c \in ChatConfigs : c.hasCharacter /\ ActivePlugins_any(c.subs) = {}}
  /\ ChatInitial

\* streamMessage with a model that answers with text and calls no tool
NextChat ==
  \/ StreamMessage
  \/ ResolveCharacter
  \/ BuildTools
  \/ AgentStream
  \/ StreamText
  \/ StreamSkip
  \/ StreamError
  \/ StreamEnd
  \/ ConsumerNext
  \/ ConsumerReturn
  \/ Finalize

SpecChat == InitChat /\ [][NextChat]_vars

\* a conversation with a character, for a user with an active plugin
InitPlugin ==
  /\ KnowledgeIdle({})
  /\ chat \in {c \in OnePlugin : c.hasCharacter /\ ActivePlugins(c.subs) # {}}
  /\ ChatInitial

\* the calls of the plugin tools by the model, and the sandbox
NextPlugin ==
  \/ StreamMessage
  \/ ResolveCharacter
  \/ BuildTools
  \/ AgentStream
  \/ CallPluginTool
  \/ WorkerPosts
  \/ WorkerCrashes
  \/ OnMessage
  \/ OnError
  \/ TimeoutFires
  \/ PluginToolReturn
  \/ StreamText
  \/ StreamError
  \/ StreamEnd
  \/ ConsumerNext
  \/ Finalize

SpecPlugin == InitPlugin /\ [][NextPlugin]_vars

\* the calls of the plugin tools by a model that answers without text
NextSandbox ==
  \/ StreamMessage
  \/ ResolveCharacter
  \/ BuildTools
  \/ AgentStream
  \/ CallPluginTool
  \/ WorkerPosts
  \/ WorkerCrashes
  \/ OnMessage
  \/ OnError
  \/ TimeoutFires
  \/ PluginToolReturn
  \/ StreamError
  \/ StreamEnd
  \/ ConsumerNext
  \/ Finalize

\* the timer of the runtime fires when its delay has passed; nothing makes a
\* worker post a message
SpecSandbox == InitPlugin /\ [][NextSandbox]_vars /\ WF_vars(TimeoutFires)

\* the calls of the RAG tool by a model that answers without text
NextRag ==
  \/ StreamMessage
  \/ ResolveCharacter
  \/ BuildTools
  \/ AgentStream
  \/ CallRagTool
  \/ StreamError
  \/ StreamEnd
  \/ ConsumerNext
  \/ Finalize

SpecRag == InitRag /\ [][NextRag]_vars

\* any conversation, any subscriptions of the user
InitTools ==
  /\ KnowledgeIdle({})
  /\ chat \in ChatConfigs
  /\ ChatInitial

\* streamMessage with a model that answers without text and calls no tool
NextTools ==
  \/ StreamMessage
  \/ ResolveCharacter
  \/ BuildTools
  \/ AgentStream
  \/ StreamEnd
  \/ ConsumerNext
  \/ Finalize

SpecTools == InitTools /\ [][NextTools]_vars

\* ==================================================== parseFileContent
\* the MIME types a file can be declared with; "" = the Blob has no type
MimePdf == "application/pdf"
MimeDocx == "application/vnd.openxmlformats-officedocument.wordprocessingml.document"
MimePptx == "application/vnd.openxmlformats-officedocument.presentationml.presentation"
MimeCsv == "text/csv"
MimeJson == "application/json"
MimeDoc == "application/msword"
MimePpt == "application/vnd.ms-powerpoint"
MimeHtml == "text/html"
MimePlain == "text/plain"
MimeOther == "application/octet-stream"

Mimes == {MimePdf, MimeDocx, MimePptx, MimeCsv, MimeJson, MimeDoc, MimePpt,
          MimeHtml, MimePlain, MimeOther, "Application/PDF", ""}

\* the end of the file name, after the last dot
Exts == {"pdf", "docx", "pptx", "csv", "json", "doc", "ppt", "html", "txt"}

\* fileType.toLowerCase()
ToLowerCase(mime) == IF mime = "Application/PDF" THEN MimePdf ELSE mime

\* file_type.startsWith("text/")
StartsWithText(mime) == mime \in {MimeCsv, MimeHtml, MimePlain}

\* content.type || "text/plain"
FileType(mime) == IF mime = "" THEN MimePlain ELSE mime

Loaded(loader) == [loader |-> loader, error |-> ""]
Unsupported(ext) == [loader |-> "", error |-> ext]

\* parseFileContent of the upload handler: the first format, in the order of
\* the code, whose MIME type or whose extension the file has
ParseFileContent(fileType, ext) ==
  LET mimeType == ToLowerCase(fileType) IN
  IF mimeType = MimePdf \/ ext = "pdf" THEN Loaded("WebPDFLoader")
  ELSE IF mimeType = MimeDocx \/ ext = "docx" THEN Loaded("DocxLoader")
  ELSE IF mimeType = MimePptx \/ ext = "pptx" THEN Unsupported("pptx")
  ELSE IF mimeType = MimeCsv \/ ext = "csv" THEN Loaded("CSVLoader")
  ELSE IF mimeType = MimeJson \/ ext = "json" THEN Loaded("JSONLoader")
  ELSE IF mimeType = MimeDoc \/ ext = "doc" THEN Unsupported("doc")
  ELSE IF mimeType = MimePpt \/ ext = "ppt" THEN Unsupported("ppt")
  ELSE IF mimeType = MimeHtml \/ ext = "html" THEN Loaded("html")
  ELSE Loaded("TextLoader")

\* parseFileContent of the worker: no branch for pptx, doc and ppt
WorkerParseFileContent(fileType, ext) ==
  LET mimeType == ToLowerCase(fileType) IN
  IF mimeType = MimePdf \/ ext = "pdf" THEN Loaded("WebPDFLoader")
  ELSE IF mimeType = MimeDocx \/ ext = "docx" THEN Loaded("DocxLoader")
  ELSE IF mimeType = MimeCsv \/ ext = "csv" THEN Loaded("CSVLoader")
  ELSE IF mimeType = MimeJson \/ ext = "json" THEN Loaded("JSONLoader")
  ELSE IF mimeType = MimeHtml \/ ext = "html" THEN Loaded("html")
  ELSE Loaded("TextLoader")

\* processDocumentTask of the upload handler parses an uploaded File
ParseInline ==
  /\ pOut.inline = NoParsed
  /\ pOut' = [pOut EXCEPT !.inline = ParseFileContent(FileType(pIn.mime),
                                                     pIn.ext)]
  /\ UNCHANGED <<ingestVars, searchVars, deleteVars, chatVars, pIn>>

\* processOne of the worker: a file whose file_type starts with "text/" is
\* read as a string and wrapped in one Document, any other file is parsed
ParseWorker ==
  /\ pOut.worker = NoParsed
  /\ pOut' = [pOut EXCEPT !.worker =
                IF StartsWithText(pIn.mime) THEN Loaded("string")
                ELSE WorkerParseFileContent(FileType(pIn.mime), pIn.ext)]
  /\ UNCHANGED <<ingestVars, searchVars, deleteVars, chatVars, pIn>>

\* a file of any declared type and extension, not parsed yet
InitParse ==
  /\ files = [f \in FileIds |-> NoRow]
  /\ docs = {}
  /\ rpc = [f \in FileIds |-> "free"]
  /\ wpc = [w \in Workers |-> "idle"]
  /\ wfile = [w \in Workers |-> 0]
  /\ werr = [w \in Workers |-> ""]
  /\ embeddedEmpty = FALSE
  /\ sIn = [queryLength |-> 0, ids |-> {}, threshold |-> 0, limit |-> 0,
            queryEmbedding |-> 0]
  /\ sOut = NoResponse
  /\ sOut2 = NoResponse
  /\ kbs = KbIds
  /\ blob = [f \in FileIds |-> 0]
  /\ del = NoDelete
  /\ chat = NoChat
  /\ ChatInitial
  /\ pIn \in [mime : Mimes, ext : Exts]
  /\ pOut = NoParse

NextParse == ParseInline \/ ParseWorker

SpecParse == InitParse /\ [][NextParse]_vars

\* ============================================== chat: createPrivateChat
\* the requests are those of one user ("u") for one character ("c"); "d" is
\* another character
GroupChat == [id |-> 1, isGroup |-> TRUE]
OtherChat == [id |-> 2, isGroup |-> FALSE]

\* a chat_members row: member_type and profile_id or character_id
Member(chatId, type, who) == [chat |-> chatId, type |-> type, who |-> who]

\* the chats the user can be in before the first request: a group chat with
\* the character, a private chat with another character
PresetChats == SUBSET {GroupChat, OtherChat}

PresetMembers(rows) ==
  (IF GroupChat \in rows
   THEN {Member(1, "user", "u"), Member(1, "character", "c")} ELSE {})
  \cup (IF OtherChat \in rows
        THEN {Member(2, "user", "u"), Member(2, "character", "d")} ELSE {})

\* chats.id default gen_random_uuid(): an id no row has
FreshChatId ==
  LET used == {c.id : c \in chatRows} \cup {GroupChat.id, OtherChat.id}
  IN (CHOOSE m \in used : \A x \in used : x <= m) + 1

\* from("chat_members").select("chat_id").eq("member_type", "user")
\* .eq("profile_id", profileId): the error is not read, no data = no chat
SelectUserChats(r) ==
  /\ req[r].pc = "idle"
  /\ \E ok \in BOOLEAN :
       LET ids == IF ok THEN {m.chat : m \in {x \in members :
                                      x.type = "user" /\ x.who = "u"}}
                  ELSE {}
       IN req' = [req EXCEPT ![r].pc = IF ids # {} THEN "member"
                                       ELSE "insertChat",
                             ![r].chatIds = ids,
                             ![r].before = {q \in Requests :
                                              req[q].pc = "done"}]
  /\ UNCHANGED <<knowledgeVars, chat, messages, lastMessage, gen, sb, toolOut,
                 chatRows, members>>

\* .single(): the row when there is exactly one, else an error and no data
Single(rows) == IF Cardinality(rows) = 1 THEN CHOOSE x \in rows : TRUE ELSE 0

\* .in("chat_id", chatIds).eq("member_type", "character")
\* .eq("character_id", characterId).single()
SelectMember(r) ==
  /\ req[r].pc = "member"
  /\ \E ok \in BOOLEAN :
       LET rows == {m.chat : m \in {x \in members :
                      /\ x.chat \in req[r].chatIds
                      /\ x.type = "character"
                      /\ x.who = "c"}}
           existingMember == IF ok THEN Single(rows) ELSE 0
       IN req' = [req EXCEPT ![r].pc = IF existingMember # 0 THEN "chat"
                                       ELSE "insertChat",
                             ![r].member = existingMember]
  /\ UNCHANGED <<knowledgeVars, chat, messages, lastMessage, gen, sb, toolOut,
                 chatRows, members>>

\* from("chats").eq("id", existingMember.chat_id).eq("is_group", false)
\* .single(): the existing chat is returned with isNew: false
SelectChat(r) ==
  /\ req[r].pc = "chat"
  /\ \E ok \in BOOLEAN :
       LET rows == {c.id : c \in {x \in chatRows :
                      x.id = req[r].member /\ ~x.isGroup}}
           existingChat == IF ok THEN Single(rows) ELSE 0
       IN req' = IF existingChat # 0
                 THEN [req EXCEPT ![r].pc = "done", ![r].chat = existingChat,
                                  ![r].isNew = FALSE]
                 ELSE [req EXCEPT ![r].pc = "insertChat"]
  /\ UNCHANGED <<knowledgeVars, chat, messages, lastMessage, gen, sb, toolOut,
                 chatRows, members>>

\* from("chats").insert({owner_id, name, is_group: false, avatar}); an error
\* is thrown
InsertChat(r) ==
  /\ req[r].pc = "insertChat"
  /\ \E ok \in BOOLEAN :
       IF ok
       THEN /\ chatRows' = chatRows \cup {[id |-> FreshChatId, isGroup |-> FALSE]}
            /\ req' = [req EXCEPT ![r].pc = "insertMembers",
                                  ![r].chat = FreshChatId,
                                  ![r].created = TRUE]
       ELSE /\ chatRows' = chatRows
            /\ req' = [req EXCEPT ![r].pc = "thrown"]
  /\ UNCHANGED <<knowledgeVars, chat, messages, lastMessage, gen, sb, toolOut,
                 members>>

\* what follows a failed insert of the member rows: throw memberError, the
\* chats row stays
AfterMemberError(rows, chatId) == rows

\* from("chat_members").insert([user row, character row]): one statement,
\* both rows or none; the new chat is returned with isNew: true
InsertMembers(r) ==
  /\ req[r].pc = "insertMembers"
  /\ \E ok \in BOOLEAN :
       IF ok
       THEN /\ members' = members \cup {Member(req[r].chat, "user", "u"),
                                        Member(req[r].chat, "character", "c")}
            /\ chatRows' = chatRows
            /\ req' = [req EXCEPT ![r].pc = "done", ![r].isNew = TRUE]
       ELSE /\ members' = members
            /\ chatRows' = AfterMemberError(chatRows, req[r].chat)
            /\ req' = [req EXCEPT ![r].pc = "thrown"]
  /\ UNCHANGED <<knowledgeVars, chat, messages, lastMessage, gen, sb, toolOut>>

\* the user's chats before the first request, no request started
InitPrivate ==
  /\ KnowledgeIdle({})
  /\ chat = NoChat
  /\ messages = <<>>
  /\ lastMessage = <<>>
  /\ gen = NoCall
  /\ sb = NoSandbox
  /\ toolOut = NoToolOut
  /\ chatRows \in PresetChats
  /\ members = PresetMembers(chatRows)
  /\ req = [r \in Requests |-> NoRequest]

\* POST /chats/private, any number of requests at a time
NextPrivate ==
  \E r \in Requests :
    \/ SelectUserChats(r)
    \/ SelectMember(r)
    \/ SelectChat(r)
    \/ InsertChat(r)
    \/ InsertMembers(r)

SpecPrivate == InitPrivate /\ [][NextPrivate]_vars

\* ------------------------------------------------------- specification
\* both add-document handlers of the knowledge function (a request is served
\* by one of them) and the workers that serve the queue
Next ==
  \/ AddDocumentInsert
  \/ AddDocumentRequeue
  \/ InlineInsert
  \/ InlineProcess
  \/ InlineComplete
  \/ InlineFail
  \/ \E w \in Workers : SelectPending(w)
  \/ \E w \in Workers : ClaimFile(w)
  \/ \E w \in Workers : Download(w)
  \/ \E w \in Workers : ParseAndSplit(w)
  \/ \E w \in Workers : EmbedDocuments(w)
  \/ \E w \in Workers : InsertDocuments(w)
  \/ \E w \in Workers : MarkCompleted(w)
  \/ \E w \in Workers : MarkFailed(w)
  \/ DeleteKnowledgeBase
  \/ CleanupStorage
  \/ SearchDeleted

Spec == Init /\ [][Next]_vars

\* one step of processOne in the loop of worker w
WorkerStep(w) ==
  \/ SelectPending(w)
  \/ ClaimFile(w)
  \/ Download(w)
  \/ ParseAndSplit(w)
  \/ EmbedDocuments(w)
  \/ InsertDocuments(w)
  \/ MarkCompleted(w)
  \/ MarkFailed(w)

\* the queue-only upload handler and the workers
NextWorker ==
  \/ AddDocumentInsert
  \/ AddDocumentRequeue
  \/ \E w \in Workers : WorkerStep(w)

\* every worker process is scheduled: a loop that can take a step takes it
SpecWorker ==
  Init /\ [][NextWorker]_vars /\ \A w \in Workers : WF_vars(WorkerStep(w))

TypeOK ==
  /\ \A f \in FileIds :
       files[f].status \in {"none", "pending", "processing", "completed", "failed"}
  /\ \A w \in Workers : wfile[w] \in FileIds \cup {0}

\* ===================================================== ingestion claims
\* a worker that is past the claim step and has not finished its job
Holding(w) == wpc[w] \in {"download", "parse", "embed", "insert", "complete", "catch"}

\* C1: at most one worker claims a pending file and goes on to process it;
\* no two workers are ever processing the same file at the same time.
C1_AtMostOneClaim ==
  \A w1 \in Workers, w2 \in Workers :
    (w1 # w2 /\ Holding(w1) /\ Holding(w2)) => wfile[w1] # wfile[w2]

\* (the creation and the deletion of the row are not status changes)
LegalStatusStep(a, b) ==
  \/ a = b
  \/ a = "none"
  \/ b = "none"
  \/ <<a, b>> \in {<<"pending", "processing">>, <<"processing", "completed">>,
                   <<"processing", "failed">>, <<"failed", "pending">>}

\* C2: the status of a file only changes pending -> processing ->
\* completed | failed (and failed -> pending on re-ingestion), in every step
\* of the upload handler and of the workers.
C2_StatusTransitions ==
  [][\A f \in FileIds : LegalStatusStep(files[f].status, files'[f].status)]_vars

\* C3: when the batch insert of a file's chunks has failed and the job has
\* handled the failure, no chunk row of the file exists and the file (if its
\* row still exists) is failed.
C3_AllOrNothing ==
  [][\A w \in Workers :
       (wpc[w] = "catch" /\ werr[w] = "insert" /\ wpc'[w] = "idle"
          /\ files[wfile[w]].status # "none")
         => /\ {d \in docs' : d.file = wfile[w]} = {}
            /\ files'[wfile[w]].status = "failed"]_vars

\* C4: every failure of a step of a claimed job ends the job with the file
\* (if its row still exists) marked failed and a non-empty error_message,
\* nothing is raised out of processOne, and the catch is followed by no other
\* step of the job.
C4_FailuresRecorded ==
  [][\A w \in Workers :
       /\ wpc'[w] # "raised"
       /\ (wpc[w] = "catch" /\ wpc'[w] # "catch") => wpc'[w] = "idle"
       /\ (wpc[w] \in {"catch", "download"} /\ wpc'[w] = "idle"
             /\ files[wfile[w]].status # "none")
            => /\ files'[wfile[w]].status = "failed"
               /\ files'[wfile[w]].error_message # ""]_vars

\* C5: a file marked completed carries chunk_count, equal to the number of
\* chunk rows inserted for it.
C5_ChunkCountRecorded ==
  \A f \in FileIds :
    files[f].status = "completed"
      => files[f].chunk_count = SplitDocsLength(files[f].content)

\* C6: no embedding call is made for a content of length zero or without
\* chunks: a worker at or past the embedding call holds a content with chunks.
C6_NoEmbeddingOfEmptyContent ==
  /\ ~embeddedEmpty
  /\ \A w \in Workers :
       wpc[w] \in {"embed", "insert", "complete"}
         => /\ TotalContentLength(files[wfile[w]].content) > 0
            /\ SplitDocsLength(files[wfile[w]].content) > 0

\* an empty content was ingested: the guard fired and the file is failed
C6_Witness ==
  \E f \in FileIds :
    /\ files[f].content.kind \in {"empty", "blank"}
    /\ files[f].status = "failed"
    /\ files[f].error_message \in {"No content to process after parsing",
                                   "No content to process after splitting"}

\* C7: a successful add-document request leaves one new row in status
\* pending, no step of the request handler inserts chunk rows, and a failed
\* upload creates no row.
C7_EnqueueOnly ==
  [][\A f \in FileIds :
       /\ (rpc[f] = "free" /\ rpc'[f] \notin {"free", "error500", "notFound404"})
            => files'[f].status = "pending"
       /\ (rpc[f] = "free" /\ rpc'[f] \in {"error500", "notFound404"})
            => files'[f].status = "none"
       /\ rpc'[f] # rpc[f] => docs' = docs]_vars

\* C12: after a knowledge base is deleted no file row and no chunk row
\* references it, whatever the workers and the upload handlers do before and
\* after; a search scoped to it answers with an empty list (its only errors
\* are those of the embedding provider and of the store, as for any search);
\* and the deletion answers 200 also when the storage cleanup fails.
C12_DeleteCascades ==
  /\ \A f \in FileIds : files[f].status # "none" => files[f].kb \in kbs
  /\ \A d \in docs : d.kb \in kbs
  /\ (sOut.outcome \notin {"none", "validation_error"} /\ sIn.ids \cap kbs = {})
       => \/ sOut.outcome = "success" /\ sOut.documents = <<>>
          \/ sOut.outcome = "error" /\ sOut.error \in {"embed", "rpc"}
  /\ (del.pc \notin {"none", "error500"}) => del.kb \notin kbs
  /\ del.pc \in {"none", "cleanup", "deleted200", "error500"}
  /\ (del.pc = "error500") => del.kb \in kbs

\* a knowledge base was deleted while a worker held one of its files, the
\* storage cleanup failed and the deletion answered 200, and a search scoped
\* to the deleted id answered with an empty list
C12_Witness ==
  /\ del.pc = "deleted200"
  /\ \E f \in FileIds : blob[f] = del.kb
  /\ \E w \in Workers :
       /\ Holding(w)
       /\ files[wfile[w]].status = "none"
       /\ files[wfile[w]].kb = del.kb
  /\ sOut.outcome = "success"
  /\ sIn.ids = {del.kb}
  /\ sOut.documents = <<>>

\* ========================================================== chat claims
RECURSIVE TextOf(_)
\* the concatenation, in order, of the text increments of the yielded chunks
TextOf(chunks) ==
  IF Len(chunks) = 0 THEN <<>>
  ELSE (IF Head(chunks).kind = "text" THEN Head(chunks).text ELSE <<>>)
       \o TextOf(Tail(chunks))

\* the call has got past saveUserMessage
PastSaveUser == gen.pc # "idle" /\ ~(gen.pc = "thrown" /\ gen.end = "saveUser")

\* C13: the user's message is in the store before the character is looked up
\* and before any model call is started, and no later step of the call (or of
\* a later call) removes or changes it.
C13_UserMessageFirst ==
  /\ [](PastSaveUser =>
          /\ gen.userRow \in 1..Len(messages)
          /\ messages[gen.userRow] = UserRow(UserMessage))
  /\ [](gen.modelCalls > 0 => PastSaveUser)
  /\ [][/\ Len(messages') >= Len(messages)
        /\ SubSeq(messages', 1, Len(messages)) = messages]_vars

\* a call whose user message is stored and that failed afterwards: the model
\* stream failed, or the save of the character's message was rejected
C13_Witness ==
  /\ gen.userRow # 0
  /\ messages[gen.userRow] = UserRow(UserMessage)
  /\ gen.pc = "thrown"
  /\ gen.end = "saveAI"
  /\ \E i \in 1..Len(gen.yielded) : gen.yielded[i].kind = "marker"

\* C14: a call stores a character message exactly when it has produced a
\* non-empty text increment (and the store accepts the insert, whose rejection
\* ends the call with that error); the stored text is the in-order
\* concatenation of the text increments yielded, without the error marker; a
\* call without text stores none and attempts none.
C14_AssistantMessageIffText ==
  /\ gen.pc = "done" => (gen.aiRow # 0 <=> TextOf(gen.yielded) # <<>>)
  /\ gen.pc # "done" => gen.aiRow = 0
  /\ (gen.pc = "thrown" /\ gen.end = "saveAI") => TextOf(gen.yielded) # <<>>
  /\ gen.aiRow # 0 =>
       /\ gen.aiRow \in 1..Len(messages)
       /\ messages[gen.aiRow] = CharacterRow(TextOf(gen.yielded))
  /\ Len(messages) <= 2 * gen.call
  /\ \A i \in 1..Len(messages) :
       messages[i].sender_type = "character" => messages[i].text # <<>>

\* a generation that produced two increments and then failed: the message is
\* their concatenation, and the marker is not part of it
C14_Witness ==
  /\ gen.pc = "done"
  /\ gen.aiRow # 0
  /\ Len(gen.yielded) = 3
  /\ gen.yielded[1].kind = "text" /\ gen.yielded[2].kind = "text"
  /\ gen.yielded[1].text # gen.yielded[2].text
  /\ gen.yielded[3].kind = "marker"
  /\ messages[gen.aiRow].text = gen.yielded[1].text \o gen.yielded[2].text

\* C15: when the model stream has failed, the error marker is the last chunk
\* the call yields and the call does not end by throwing to its consumer.
C15_StreamErrorNotThrown ==
  \A i \in 1..Len(gen.yielded) :
    gen.yielded[i].kind = "marker"
      => /\ i = Len(gen.yielded)
         /\ gen.pc # "thrown"

\* C16: when the consumer stops (return()) after text was delivered, the text
\* accumulated so far is stored as the character's message; the only other
\* end of such a call is the rejection of that insert by the store.
C16_PersistOnDisconnect ==
  (gen.returned /\ TextOf(gen.yielded) # <<>>)
    => /\ gen.pc \in {"finally", "done", "thrown"}
       /\ gen.pc = "done" =>
            /\ gen.aiRow # 0
            /\ messages[gen.aiRow] = CharacterRow(TextOf(gen.yielded))
       /\ gen.pc = "thrown" => gen.end = "saveAI"

\* the consumer stopped after the first increment of a stream that had more
\* to deliver, and the increment is stored
C16_Witness ==
  /\ gen.returned
  /\ gen.pc = "done"
  /\ gen.n < MaxStream
  /\ Len(gen.yielded) = 1
  /\ gen.aiRow # 0
  /\ messages[gen.aiRow].text = gen.yielded[1].text

\* C17: in a conversation without character member a call yields the
\* sentinel and nothing else, starts no model call, builds no tool, stores no
\* character message and ends without error.
C17_NoCharacterSentinel ==
  (~chat.hasCharacter /\ PastSaveUser)
    => /\ gen.pc \in {"resolve", "yieldSentinel", "done"}
       /\ gen.pc # "resolve" => gen.yielded = <<Sentinel>>
       /\ gen.pc = "resolve" => gen.yielded = <<>>
       /\ gen.modelCalls = 0
       /\ gen.tools = {}
       /\ gen.aiRow = 0
       /\ \A i \in 1..Len(messages) : messages[i].sender_type = "user"

\* a call in a conversation without character has ended
C17_Witness ==
  /\ ~chat.hasCharacter
  /\ gen.pc = "done"
  /\ ~gen.returned
  /\ gen.yielded = <<Sentinel>>
  /\ Len(messages) = gen.call

\* CONSTRAINT messages_sender_ck
MessagesSenderCk(row) ==
  \/ /\ row.sender_type = "user"
     /\ row.sender_profile_id # "null"
     /\ row.sender_character_id = "null"
  \/ /\ row.sender_type = "character"
     /\ row.sender_character_id # "null"
     /\ row.sender_profile_id = "null"

\* C23: every messages row has exactly one sender: a user row has a profile
\* id and no character id, a character row a character id and no profile id.
C23_ExactlyOneSender ==
  \A i \in 1..Len(messages) :
    /\ MessagesSenderCk(messages[i])
    /\ (messages[i].sender_profile_id = "null")
         # (messages[i].sender_character_id = "null")

\* saveUserMessage and saveAIMessage have both stored a row
C23_Witness ==
  /\ \E i \in 1..Len(messages) : messages[i].sender_type = "user"
  /\ \E i \in 1..Len(messages) : messages[i].sender_type = "character"
  /\ gen.pc = "done"

\* the call has assembled its tools
ToolsBuilt == gen.pc = "agent" \/ gen.modelCalls > 0

C26_ChunksStoredOnce ==
  \A f \in FileIds :
    LET rows == DocsOfFile(f) IN
    /\ \A d \in rows, e \in rows : d.chunkIndex = e.chunkIndex => d = e
    /\ \A d \in rows : d.totalChunks = Cardinality(rows)
    /\ {d.chunkIndex : d \in rows} = 0..(Cardinality(rows) - 1)
    /\ files[f].status = "pending" => rows = {}

\* C27: no worker loop ever stops, and every file that is processing is
\* completed or failed in the end.
C27_WorkerLoopLive ==
  /\ [](\A w \in Workers : wpc[w] # "raised")
  /\ \A f \in FileIds :
       (files[f].status = "processing")
         ~> (files[f].status \in {"completed", "failed"})

\* C28: a call of runPluginInSandbox settles once, with one of result, plugin
\* error, worker error and timeout, whatever the order of the worker's
\* message, its error event and the timer: the worker is terminated in all
\* four outcomes, the timer is cleared when a message or an error came first
\* and has fired otherwise, and an event handled after the call has settled
\* changes neither the outcome nor the worker, the timer or the chat.
C28_SettlesOnce ==
  /\ [](Settled => sb.worker = "terminated")
  /\ [](sb.promise \in {"resolved", "rejectedPlugin", "rejectedWorker"}
          => sb.timer = "cleared")
  /\ [](sb.promise = "rejectedTimeout" => sb.timer = "fired")
  /\ [][Settled => sb'.promise \in {sb.promise, "pending", "none"}]_vars
  /\ [][(Settled /\ sb' # sb /\ sb'.promise = sb.promise)
          => /\ sb'.worker = sb.worker
             /\ sb'.timer = sb.timer
             /\ UNCHANGED <<gen, toolOut, messages, lastMessage>>]_vars

\* the timer fired first and the worker's message was handled after it
C28_Witness ==
  /\ sb.promise = "rejectedTimeout"
  /\ sb.late
  /\ sb.event = "none"
  /\ ~sb.errorEvent
  /\ sb.worker = "terminated"

\* a parser has been applied
Parsed(out) == out # NoParsed

\* the file is of a legacy type, by its MIME type or by its extension
Legacy(f) == f.mime \in {MimeDoc, MimePpt, MimePptx}
               \/ f.ext \in {"doc", "ppt", "pptx"}

\* C24: a file of a legacy type (.doc, .ppt, .pptx, by MIME type or by
\* extension) is rejected by the parser of the upload handler and by the
\* parser of the worker with the unsupported-format error: no extractor is
\* applied to it.
C24_LegacyRejected ==
  Legacy(pIn) =>
    /\ Parsed(pOut.inline) =>
         pOut.inline.error \in {"doc", "ppt", "pptx"} /\ pOut.inline.loader = ""
    /\ Parsed(pOut.worker) =>
         pOut.worker.error \in {"doc", "ppt", "pptx"} /\ pOut.worker.loader = ""

\* the extractor of the format a MIME type declares ("" = no format)
LoaderOfMime(mime) ==
  CASE ToLowerCase(mime) = MimePdf -> "WebPDFLoader"
    [] ToLowerCase(mime) = MimeDocx -> "DocxLoader"
    [] ToLowerCase(mime) = MimeCsv -> "CSVLoader"
    [] ToLowerCase(mime) = MimeJson -> "JSONLoader"
    [] ToLowerCase(mime) = MimeHtml -> "html"
    [] OTHER -> ""

\* C25: when the declared MIME type is that of a supported format (PDF, DOCX,
\* CSV, JSON, HTML), the extractor of that format is the one applied,
\* whatever the extension of the file name.
C25_MimeFirst ==
  LoaderOfMime(pIn.mime) # "" =>
    /\ Parsed(pOut.inline) => pOut.inline.loader = LoaderOfMime(pIn.mime)
    /\ Parsed(pOut.worker) => pOut.worker.loader = LoaderOfMime(pIn.mime)

\* the non-group chats that hold both the user and the character
PrivateChats ==
  {c \in chatRows :
     /\ ~c.isGroup
     /\ Member(c.id, "user", "u") \in members
     /\ Member(c.id, "character", "c") \in members}

\* C22: once a request has created the private chat (isNew = true), a
\* request that starts later does not get to the inserts: it returns that
\* chat with isNew = false and creates no row, whatever other chats the user
\* and the character are in.
C22_CreatePrivateChatIdempotent ==
  \A r \in Requests : \A q \in req[r].before :
    (req[q].isNew /\ req[r].pc \notin {"idle", "member", "chat"})
      => /\ req[r].pc = "done"
         /\ ~req[r].isNew
         /\ ~req[r].created
         /\ req[r].chat = req[q].chat

\* C29: at most one non-group chat holds both the user and the character.
C29_OnePrivateChat == Cardinality(PrivateChats) <= 1

\* C30: a chat inserted by a request that has ended has exactly its two
\* member rows, the user and the character; a request whose member insert
\* failed leaves no chat row.
C30_ChatHasMembers ==
  \A r \in Requests :
    (req[r].created /\ req[r].pc \in {"done", "thrown"})
      => \A c \in chatRows : c.id = req[r].chat =>
           {m \in members : m.chat = c.id}
             = {Member(c.id, "user", "u"), Member(c.id, "character", "c")}

\* C18: a plugin call that is pending is settled in the end and its worker
\* is terminated, also when the worker never posts anything: the timeout of
\* 5000 ms then fires, terminates the worker and rejects the call with the
\* timeout error; no settled call has a running worker.
C18_PluginTimeout ==
  /\ [](Settled => sb.worker = "terminated")
  /\ [](sb.promise = "rejectedTimeout" =>
          /\ sb.timer = "fired"
          /\ sb.delay = PluginTimeoutMs
          /\ RejectionMessage(sb.promise) = "Plugin execution timed out")
  /\ (sb.promise = "pending") ~> (Settled /\ sb.worker = "terminated")

\* a plugin call was rejected by the timeout and the tool has returned
C18_Witness ==
  /\ sb.promise = "rejectedTimeout"
  /\ sb.worker = "terminated"
  /\ sb.event = "none"
  /\ toolOut.tool \in Plugins
  /\ toolOut.error = "Plugin execution timed out"

\* C19: a plugin tool call never throws: every rejection of
\* runPluginInSandbox (plugin exception, worker error, timeout) is returned
\* to the model as a text that names the error, and the stream of the
\* enclosing streamMessage goes on after the call.
C19_PluginFailureAsText ==
  /\ [](toolOut.kind # "throw")
  /\ []((toolOut.tool \in Plugins /\ toolOut.kind # "none") =>
          /\ Settled
          /\ sb.promise = "resolved" => toolOut.kind = "value"
          /\ sb.promise # "resolved" =>
               /\ toolOut.kind = "text"
               /\ toolOut.error = RejectionMessage(sb.promise)
               /\ toolOut.error # "")
  /\ [][(gen.pc = "tool" /\ gen'.pc # "tool") => gen'.pc = "stream"]_vars

\* a plugin threw, the tool returned the text, and the call went on to
\* produce and store the answer
C19_Witness ==
  /\ toolOut.tool \in Plugins
  /\ toolOut.kind = "text"
  /\ sb.promise = "rejectedPlugin"
  /\ gen.pc = "done"
  /\ gen.aiRow # 0

\* the rows the RAG tool may return for the last query
RagMatching ==
  {d \in docs : d.kb \in chat.kbIds /\ ILike(d.content, toolOut.query)}

\* C20: the search_knowledge_base tool returns the join of the contents of
\* at least one and at most 5 chunks that match the query, all of the
\* character's knowledge bases, or the text "No relevant information found."
\* exactly when no chunk matches, or on a store failure an error text that is
\* not that sentinel; its result is never empty.
C20_RagToolResult ==
  toolOut.tool = "search_knowledge_base" =>
    /\ toolOut.kind \in {"join", "text"}
    /\ toolOut.kind = "join" =>
         /\ toolOut.text # <<>>
         /\ toolOut.text = JoinTexts(toolOut.contents)
         /\ Len(toolOut.contents) \in 1..RagLimit
         /\ Len(toolOut.contents) = Min(RagLimit, Cardinality(RagMatching))
         /\ toolOut.kbsOf \subseteq chat.kbIds
         /\ \A i \in 1..Len(toolOut.contents) :
              \E d \in RagMatching : d.content = toolOut.contents[i]
    /\ toolOut.kind = "text" =>
         /\ toolOut.error \in {"No relevant information found.",
                               "Error searching knowledge base: message"}
         /\ toolOut.error = "No relevant information found." => RagMatching = {}

\* more than 5 chunks of the subscribed knowledge base match, 5 are
\* returned, and a matching chunk of another knowledge base is not among them
C20_Witness ==
  /\ toolOut.tool = "search_knowledge_base"
  /\ toolOut.kind = "join"
  /\ Cardinality(RagMatching) > RagLimit
  /\ Len(toolOut.contents) = RagLimit
  /\ \E i \in 1..RagLimit, j \in 1..RagLimit :
       toolOut.contents[i] # toolOut.contents[j]
  /\ \E d \in docs : d.kb \notin chat.kbIds /\ ILike(d.content, toolOut.query)

\* ======================================================== search claims
\* C11: two search calls with identical arguments against an unchanged store
\* return identical ranked lists, also when chunks have equal similarity.
C11_SearchIdempotent ==
  (sOut.outcome = "success" /\ sOut2.outcome = "success")
    => sOut2.documents = sOut.documents

\* ids of the documents of the last response
ReturnedIds == {sOut.documents[i].id : i \in 1..Len(sOut.documents)}

\* chunks of the requested knowledge bases above the threshold
Above == {d \in docs : d.kb \in sIn.ids
                       /\ Similarity(d.emb, sIn.queryEmbedding) > sIn.threshold}

\* C8: a chunk whose similarity equals the threshold is not returned, and
\* the chunks above the threshold are returned when they fit in the limit.
C8_ThresholdBoundary ==
  sOut.outcome = "success" =>
    /\ \A d \in docs :
         Similarity(d.emb, sIn.queryEmbedding) = sIn.threshold
           => d.id \notin ReturnedIds
    /\ Cardinality(Above) <= sIn.limit => \A d \in Above : d.id \in ReturnedIds

\* a search that met a chunk at the threshold and one above it
C8_Witness ==
  /\ sOut.outcome = "success"
  /\ \E d \in docs : /\ d.kb \in sIn.ids
                     /\ Similarity(d.emb, sIn.queryEmbedding) = sIn.threshold
  /\ \E d \in Above : d.id \in ReturnedIds

\* C9: a successful search returns chunks of the given knowledge bases with
\* similarity above the threshold only, without repetition, in descending
\* similarity, min(limit, number of such chunks) of them, and none that is
\* left out is more similar than one that is returned.
C9_SearchResult ==
  sOut.outcome = "success" =>
    LET r == sOut.documents IN
    /\ \A i \in 1..Len(r) : \E d \in Above :
         d.id = r[i].id /\ r[i].similarity = Similarity(d.emb, sIn.queryEmbedding)
    /\ \A i \in 1..Len(r), j \in 1..Len(r) :
         i < j => r[i].id # r[j].id /\ r[i].similarity >= r[j].similarity
    /\ Len(r) = Min(sIn.limit, Cardinality(Above))
    /\ \A d \in Above :
         d.id \notin ReturnedIds
           => \A i \in 1..Len(r) :
                r[i].similarity >= Similarity(d.emb, sIn.queryEmbedding)

\* a search that returned a chunk, cut a less similar one at the limit and
\* left out a similar chunk of another knowledge base
C9_Witness ==
  /\ sOut.outcome = "success"
  /\ Len(sOut.documents) >= 1
  /\ \E d \in Above :
       /\ d.id \notin ReturnedIds
       /\ Similarity(d.emb, sIn.queryEmbedding) < sOut.documents[1].similarity
  /\ \E d \in docs : d.kb \notin sIn.ids
                     /\ Similarity(d.emb, sIn.queryEmbedding) > sIn.threshold

\* C10 as stated: a search with no knowledge base id or with threshold 1.0
\* answers with an empty list and never with an error.
C10_EmptyNeverError ==
  (sOut.outcome # "none" /\ (sIn.ids = {} \/ sIn.threshold = Scale))
    => (sOut.outcome = "success" /\ sOut.documents = <<>>)

\* C10 as amended: a search without knowledge base id is rejected by the
\* validation, and a search with threshold 1.0 never returns a chunk.
C10_EmptyOrRejected ==
  /\ (sOut.outcome # "none" /\ sIn.ids = {})
       => (sOut.outcome = "validation_error" /\ sOut.documents = <<>>)
  /\ (sOut.outcome # "none" /\ sIn.threshold = Scale) => sOut.documents = <<>>

\* a successful search with threshold 1.0 over a chunk that equals the query
C10_Witness ==
  /\ sOut.outcome = "success"
  /\ sIn.threshold = Scale
  /\ \E d \in docs : d.kb \in sIn.ids /\ d.emb = sIn.queryEmbedding
  /\ sOut.documents = <<>>

====
